---- MODULE Spec2Model ----
(***************************************************************************)
(* Certificate backend (express + multer + supabase storage + pg).        *)
(*                                                                         *)
(* The two source files (src/app.js, variant A; src/unnamed/part_000,      *)
(* variant B) have the same handlers for POST/GET/PUT/DELETE               *)
(* /certificate; they differ only in the names of the metadata columns    *)
(* (name/description/category/link against title/provider/date/link).     *)
(* The model keeps the required identifying column (name or title) and    *)
(* the image column; the other metadata columns are passed from the body  *)
(* to the statement exactly like the identifying column on the write path *)
(* and take no part in any condition of the code.                         *)
(*                                                                         *)
(* Every handler is cut at its awaits: between two awaits a handler runs  *)
(* without interleaving (single JavaScript thread), and the steps of      *)
(* different requests interleave freely.                                  *)
(***************************************************************************)
EXTENDS Integers, Sequences, FiniteSets, TLC

\* ---------------------------------------------------------------- bounds
NumReq == 2          \* requests in flight at the same time
MaxArrivals == 3     \* requests the service receives in one run

Req == 1..NumReq

\* ---------------------------------------------------------- program values
\* SQL NULL / JavaScript null and undefined as they reach the statement.
NULL == "NULL"

\* process.env.SUPABASE_URL
supabaseUrl == "https://sb.example"

\* req.body.name (title): absent, empty, or a non-empty string.
Names == {NULL, "", "AWS Cert"}

\* PUT makes no test on the name: whatever the body holds reaches the
\* statement, and one new value stands for it.
UpdateNames == {"Renamed"}

\* req.file as multer leaves it: <<>> for undefined, else one file object.
\* Two files share a name and differ in content; a third has its own name.
FileObjs == {[originalname |-> "aws.png", buffer |-> 1],
             [originalname |-> "aws.png", buffer |-> 2],
             [originalname |-> "gcp.png", buffer |-> 1]}
Files == {<<>>} \cup {<<f>> : f \in FileObjs}

\* Variant: the object is stored at the bare file name, outside the folder
\* that the public URL names.
ObjectPathNoFolder(file) == file.originalname

\* `public/${file.originalname}`
ObjectPath(file) == "public/" \o file.originalname

\* Variant: the URL leaves out the folder of the object path.
PublicURLNoFolder(file) ==
    supabaseUrl \o "/storage/v1/object/public/images/" \o file.originalname

\* `${supabaseUrl}/storage/v1/object/public/images/public/${file.originalname}`
PublicURL(file) ==
    supabaseUrl \o "/storage/v1/object/public/images/public/" \o file.originalname

\* Variant: only an absent name is refused, an empty one passes.
TruthyNullOnly(name) == name # NULL

\* JavaScript truthiness of req.body.name: undefined and "" are falsy.
Truthy(name) == name # NULL /\ name # ""

VARIABLES
    rows,       \* certificates table: id -> [id, name, image]
    nextId,     \* the table's identifier sequence
    blobs,      \* bucket 'images': object path -> content
    reqs,       \* request slot -> handler state
    arrivals,   \* requests received so far
    resp,       \* the response sent last, with the request it answers
    deleted,    \* history: identifiers removed by a successful DELETE
    created     \* history: id -> row returned by Create, until the id is
                \* next hit by an UPDATE or DELETE statement

\* req.params.id: an identifier the sequence has handed out (its row may be
\* there or deleted), or the one it hands out next (no row yet).
Ids == 1..nextId

vars == <<rows, nextId, blobs, reqs, arrivals, resp, deleted, created>>

\* A free slot.  uploadCalled, dbIssued, dbError and wrote are history: the
\* upload call has resolved, the statement has been run by the database, the
\* statement threw, the statement wrote a row of the table.
Idle == [kind |-> "none", id |-> 0, name |-> NULL, file |-> <<>>,
         pc |-> "idle", publicURL |-> NULL,
         uploadCalled |-> FALSE, uploadError |-> NULL,
         dbIssued |-> FALSE, dbError |-> FALSE, wrote |-> FALSE]

\* No response sent yet.
NoResp == [kind |-> "none", id |-> 0, hadName |-> FALSE, hadFile |-> FALSE,
           status |-> 0, body |-> <<>>,
           uploadCalled |-> FALSE, uploadError |-> NULL,
           dbIssued |-> FALSE, dbError |-> FALSE, wrote |-> FALSE]

Init ==
    /\ rows = <<>>
    /\ nextId = 1
    /\ blobs = <<>>
    /\ reqs = [r \in Req |-> Idle]
    /\ arrivals = 0
    /\ resp = NoResp
    /\ deleted = {}
    /\ created = <<>>

\* ------------------------------------------------------------ helpers
\* f with key k bound to v (k added to the domain when new).
Put(f, k, v) == [x \in DOMAIN f \cup {k} |-> IF x = k THEN v ELSE f[x]]

\* f without key k.
Drop(f, k) == [x \in DOMAIN f \ {k} |-> f[x]]

\* res.status(status).json(body): the handler of slot r ends in the state
\* fin; the slot is free again and resp holds what was answered, with the
\* request's kind, identifier and history, and whether it carried a truthy
\* name and a file.
Respond(r, fin, status, body) ==
    /\ resp' = [kind |-> fin.kind, id |-> fin.id,
                hadName |-> fin.name \notin {NULL, ""}, hadFile |-> fin.file # <<>>,
                status |-> status, body |-> body,
                uploadCalled |-> fin.uploadCalled, uploadError |-> fin.uploadError,
                dbIssued |-> fin.dbIssued, dbError |-> fin.dbError,
                wrote |-> fin.wrote]
    /\ reqs' = [reqs EXCEPT ![r] = Idle]

\* ------------------------------------------------------------ arrival
\* A request arrives and takes the lowest free slot r (multer has parsed the
\* body and buffered the file in memory) and its handler starts.
Accept(r) ==
    /\ reqs[r].pc = "idle"
    /\ \A q \in 1..(r - 1) : reqs[q].pc # "idle"
    /\ arrivals < MaxArrivals
    /\ arrivals' = arrivals + 1

\* ------------------------------------------------------ external stores
\* Variant: the call is made with upsert: true, an existing object is replaced.
StoreUploadUpsert(bucket, path, buffer, fail) ==
    IF fail THEN [error |-> "StoreError", bucket |-> bucket]
    ELSE [error |-> NULL, bucket |-> Put(bucket, path, buffer)]

\* supabase.storage.from('images').upload(path, buffer, { contentType }):
\* the options carry no upsert flag, so the client sends x-upsert: false and
\* the store rejects a path that already holds an object ("Duplicate",
\* "The resource already exists").  Any call may also fail for a reason of
\* the store or the network (fail).  Result: the error and the bucket.
StoreUpload(bucket, path, buffer, fail) ==
    IF fail THEN [error |-> "StoreError", bucket |-> bucket]
    ELSE IF path \in DOMAIN bucket THEN [error |-> "Duplicate", bucket |-> bucket]
    ELSE [error |-> NULL, bucket |-> Put(bucket, path, buffer)]

\* Variant: the upload's error is not looked at.
ThrownNever(uploadError) == FALSE

\* if (uploadError) { throw uploadError; }
Thrown(uploadError) == uploadError # NULL

\* The identifier column's default: the next value of the table's sequence.
Nextval(seq) == seq + 1

\* Variant: the arguments swapped, COALESCE(image, $3).
CoalesceSwapped(a, b) == IF b # NULL THEN b ELSE a

\* COALESCE($3, image)
Coalesce(a, b) == IF a # NULL THEN a ELSE b

\* INSERT INTO certificates (name, ..., image, ...) VALUES (...) RETURNING *
InsertRow(id, name, publicURL) == [id |-> id, name |-> name, image |-> publicURL]

\* Variant: SET image = $3, without COALESCE.
UpdateRowNoCoalesce(row, name, publicURL) ==
    [row EXCEPT !.name = name, !.image = publicURL]

\* UPDATE certificates SET name = $1, ..., image = COALESCE($3, image), ...
UpdateRow(row, name, publicURL) ==
    [row EXCEPT !.name = name, !.image = Coalesce(publicURL, row.image)]

\* Variant: the WHERE clause left out, the first row of the table comes back.
SelectNoWhere(table, id) ==
    IF DOMAIN table # {}
      THEN <<table[CHOOSE i \in DOMAIN table : \A j \in DOMAIN table : i <= j]>>
      ELSE <<>>

\* SELECT * FROM certificates WHERE id = $1  (result.rows)
SelectById(table, id) == IF id \in DOMAIN table THEN <<table[id]>> ELSE <<>>

\* Variant: the WHERE clause left out, every row goes.
DeleteNoWhere(table, id) == <<>>

\* DELETE FROM certificates WHERE id = $1: the table afterwards
DeleteById(table, id) == Drop(table, id)

\* ------------------------------------------------- POST /certificate
\* Lines 33-46: presence check, then the upload call is sent.
CreateStart(r) ==
    \E name \in Names, file \in Files :
      LET me == [Idle EXCEPT !.kind = "create", !.name = name, !.file = file]
      IN /\ Accept(r)
         /\ IF ~Truthy(name) \/ file = <<>>
              THEN Respond(r, me, 400, <<>>)
              ELSE /\ reqs' = [reqs EXCEPT ![r] = [me EXCEPT !.pc = "uploading"]]
                   /\ UNCHANGED resp
         /\ UNCHANGED <<rows, nextId, blobs, deleted, created>>

\* The awaited upload of a handler resolves (lines 42-52 and 104-114):
\* on an error the handler throws into its catch and answers 500, otherwise
\* it builds publicURL and goes on to its statement.
UploadResolves(r) ==
    \E fail \in BOOLEAN :
      LET file == reqs[r].file[1]
          up == StoreUpload(blobs, ObjectPath(file), file.buffer, fail)
          me == [reqs[r] EXCEPT !.uploadCalled = TRUE, !.uploadError = up.error]
      IN /\ blobs' = up.bucket
         /\ IF Thrown(up.error)
              THEN Respond(r, me, 500, <<>>)
              ELSE /\ reqs' = [reqs EXCEPT ![r] =
                         [me EXCEPT !.pc = "uploaded", !.publicURL = PublicURL(file)]]
                   /\ UNCHANGED resp

CreateUpload(r) ==
    /\ reqs[r].kind = "create" /\ reqs[r].pc = "uploading"
    /\ UploadResolves(r)
    /\ UNCHANGED <<rows, nextId, deleted, created, arrivals>>

\* Lines 55-63: the INSERT runs; the handler answers 200 with the new row,
\* or 500 when the statement fails.
CreateInsert(r) ==
    /\ reqs[r].kind = "create" /\ reqs[r].pc = "uploaded"
    /\ \E fail \in BOOLEAN :
        LET me == [reqs[r] EXCEPT !.dbIssued = TRUE]
            row == InsertRow(nextId, me.name, me.publicURL)
        IN IF fail
             THEN /\ Respond(r, [me EXCEPT !.dbError = TRUE], 500, <<>>)
                  /\ UNCHANGED <<rows, nextId, created>>
             ELSE /\ rows' = Put(rows, nextId, row)
                  /\ nextId' = Nextval(nextId)
                  /\ created' = Put(created, nextId, row)
                  /\ Respond(r, [me EXCEPT !.wrote = TRUE], 200, <<row>>)
    /\ UNCHANGED <<blobs, deleted, arrivals>>

\* ------------------------------------------------- GET /certificate/:id
\* Lines 78-81: the SELECT is sent.
GetStart(r) ==
    \E id \in Ids :
      /\ Accept(r)
      /\ reqs' = [reqs EXCEPT ![r] =
                    [Idle EXCEPT !.kind = "get", !.id = id, !.pc = "querying"]]
      /\ UNCHANGED <<rows, nextId, blobs, resp, deleted, created>>

\* Lines 81-90: the SELECT runs; 404 when it returns no row, 500 when the
\* statement fails.
GetById(r) ==
    /\ reqs[r].kind = "get" /\ reqs[r].pc = "querying"
    /\ \E fail \in BOOLEAN :
        LET me == [reqs[r] EXCEPT !.dbIssued = TRUE]
            result == SelectById(rows, me.id)
        IN IF fail THEN Respond(r, [me EXCEPT !.dbError = TRUE], 500, <<>>)
           ELSE IF Len(result) = 0 THEN Respond(r, me, 404, <<>>)
           ELSE Respond(r, me, 200, <<result[1]>>)
    /\ UNCHANGED <<rows, nextId, blobs, deleted, created, arrivals>>

\* ------------------------------------------------- PUT /certificate/:id
\* Lines 95-108: publicURL = null; with a file the upload call is sent,
\* without one the UPDATE is sent at once.
UpdateStart(r) ==
    \E id \in Ids, name \in UpdateNames, file \in Files :
      /\ Accept(r)
      /\ reqs' = [reqs EXCEPT ![r] =
                    [Idle EXCEPT !.kind = "update", !.id = id, !.name = name,
                                 !.file = file, !.publicURL = NULL,
                                 !.pc = IF file # <<>> THEN "uploading"
                                        ELSE "uploaded"]]
      /\ UNCHANGED <<rows, nextId, blobs, resp, deleted, created>>

UpdateUpload(r) ==
    /\ reqs[r].kind = "update" /\ reqs[r].pc = "uploading"
    /\ UploadResolves(r)
    /\ UNCHANGED <<rows, nextId, deleted, created, arrivals>>

\* Lines 118-130: the UPDATE runs; 404 when it returns no row, 500 when the
\* statement fails.
UpdateStmt(r) ==
    /\ reqs[r].kind = "update" /\ reqs[r].pc = "uploaded"
    /\ \E fail \in BOOLEAN :
        LET me == [reqs[r] EXCEPT !.dbIssued = TRUE]
            result == IF me.id \in DOMAIN rows
                        THEN <<UpdateRow(rows[me.id], me.name, me.publicURL)>>
                        ELSE <<>>
        IN IF fail
             THEN /\ Respond(r, [me EXCEPT !.dbError = TRUE], 500, <<>>)
                  /\ UNCHANGED <<rows, created>>
             ELSE IF Len(result) = 0
             THEN /\ Respond(r, me, 404, <<>>)
                  /\ UNCHANGED <<rows, created>>
             ELSE /\ rows' = [rows EXCEPT ![me.id] = result[1]]
                  /\ created' = Drop(created, me.id)
                  /\ Respond(r, [me EXCEPT !.wrote = TRUE], 200, <<result[1]>>)
    /\ UNCHANGED <<nextId, blobs, deleted, arrivals>>

\* ---------------------------------------------- DELETE /certificate/:id
\* Lines 135-138: the DELETE is sent.
DeleteStart(r) ==
    \E id \in Ids :
      /\ Accept(r)
      /\ reqs' = [reqs EXCEPT ![r] =
                    [Idle EXCEPT !.kind = "delete", !.id = id, !.pc = "querying"]]
      /\ UNCHANGED <<rows, nextId, blobs, resp, deleted, created>>

\* Variant: DELETE also removes from the bucket every object that a deleted
\* row's image names.
DeleteStmtWithBlob(r) ==
    /\ reqs[r].kind = "delete" /\ reqs[r].pc = "querying"
    /\ \E fail \in BOOLEAN :
        LET me == [reqs[r] EXCEPT !.dbIssued = TRUE]
            result == SelectById(rows, me.id)
            gone == {p \in DOMAIN blobs : Len(result) # 0 /\
                       result[1].image =
                         supabaseUrl \o "/storage/v1/object/public/images/" \o p}
        IN IF fail
             THEN /\ Respond(r, [me EXCEPT !.dbError = TRUE], 500, <<>>)
                  /\ UNCHANGED <<rows, created, deleted, blobs>>
             ELSE IF Len(result) = 0
             THEN /\ Respond(r, me, 404, <<>>)
                  /\ UNCHANGED <<rows, created, deleted, blobs>>
             ELSE /\ rows' = DeleteById(rows, me.id)
                  /\ created' = Drop(created, me.id)
                  /\ deleted' = deleted \cup {me.id}
                  /\ blobs' = [p \in DOMAIN blobs \ gone |-> blobs[p]]
                  /\ Respond(r, [me EXCEPT !.wrote = TRUE], 200, <<result[1]>>)
    /\ UNCHANGED <<nextId, arrivals>>

\* Lines 138-147: the DELETE runs; 404 when it returns no row, 500 when the
\* statement fails.
DeleteStmt(r) ==
    /\ reqs[r].kind = "delete" /\ reqs[r].pc = "querying"
    /\ \E fail \in BOOLEAN :
        LET me == [reqs[r] EXCEPT !.dbIssued = TRUE]
            result == SelectById(rows, me.id)
        IN IF fail
             THEN /\ Respond(r, [me EXCEPT !.dbError = TRUE], 500, <<>>)
                  /\ UNCHANGED <<rows, created, deleted>>
             ELSE IF Len(result) = 0
             THEN /\ Respond(r, me, 404, <<>>)
                  /\ UNCHANGED <<rows, created, deleted>>
             ELSE /\ rows' = DeleteById(rows, me.id)
                  /\ created' = Drop(created, me.id)
                  /\ deleted' = deleted \cup {me.id}
                  /\ Respond(r, [me EXCEPT !.wrote = TRUE], 200, <<result[1]>>)
    /\ UNCHANGED <<nextId, blobs, arrivals>>

Next ==
    \E r \in Req :
        \/ CreateStart(r)
        \/ CreateUpload(r)
        \/ CreateInsert(r)
        \/ GetStart(r)
        \/ GetById(r)
        \/ UpdateStart(r)
        \/ UpdateUpload(r)
        \/ UpdateStmt(r)
        \/ DeleteStart(r)
        \/ DeleteStmt(r)

Spec == Init /\ [][Next]_vars

\* ===================================================================
\* Properties
\* ===================================================================

\* The handler of slot r answers in this step.
Ends(r) == reqs[r].pc # "idle" /\ reqs'[r].pc = "idle"

\* The image URL written for a file name, spelled out.
ExpectedImage(filename) ==
    supabaseUrl \o "/storage/v1/object/public/images/public/" \o filename

\* The object path of a file name, spelled out.
ExpectedPath(filename) == "public/" \o filename

\* C1: a POST /certificate whose name is absent or empty, or that carries no
\* file, is answered 400; its handler makes no upload call and runs no
\* statement, so neither the bucket nor the table is changed by it.  Only
\* requests with a non-empty name and a file ever wait for an upload or for
\* the INSERT.
C1_InvalidCreateRejected ==
    /\ (resp.kind = "create" /\ ~(resp.hadName /\ resp.hadFile)) =>
          /\ resp.status = 400
          /\ ~resp.uploadCalled /\ ~resp.dbIssued /\ ~resp.wrote
    /\ \A r \in Req :
          reqs[r].kind = "create" =>
             reqs[r].name \notin {NULL, ""} /\ reqs[r].file # <<>>

C1_Witness ==
    /\ resp.kind = "create" /\ resp.status = 400
    /\ ~resp.hadName /\ resp.hadFile

\* C2: in a Create or Update the upload has resolved, without error, before
\* the statement is sent, and the two never overlap; when the upload reports
\* an error the statement of that request is never run, the answer is 500 and
\* the request writes no row.
C2_UploadBeforeStatement ==
    /\ \A r \in Req :
          /\ reqs[r].pc = "uploading" => ~reqs[r].uploadCalled /\ ~reqs[r].dbIssued
          /\ (reqs[r].pc = "uploaded" /\ reqs[r].file # <<>>) =>
                reqs[r].uploadCalled /\ reqs[r].uploadError = NULL
    /\ (resp.kind \in {"create", "update"} /\ resp.dbIssued /\ resp.hadFile) =>
          resp.uploadCalled /\ resp.uploadError = NULL
    /\ resp.uploadError # NULL =>
          ~resp.dbIssued /\ resp.status = 500 /\ ~resp.wrote

C2_Witness ==
    /\ resp.kind = "update" /\ resp.uploadError = "StoreError"
    /\ resp.status = 500 /\ rows # <<>>

\* C3: when the INSERT of a Create fails after its upload succeeded, the
\* answer is 500, the table is unchanged and the uploaded blob is still in
\* the bucket; and no step of any handler removes a blob from the bucket.
C3_OrphanBlobStays ==
    [][ /\ \A p \in DOMAIN blobs : p \in DOMAIN blobs'
        /\ \A r \in Req :
             (reqs[r].kind = "create" /\ reqs[r].pc = "uploaded" /\ Ends(r)
                /\ resp'.status # 200) =>
                /\ resp'.status = 500
                /\ rows' = rows
                /\ ExpectedPath(reqs[r].file[1].originalname) \in DOMAIN blobs'
      ]_vars

\* The INSERT of a Create has failed after its upload: a blob and no row.
C3_Witness ==
    /\ resp.kind = "create" /\ resp.uploadCalled /\ resp.dbError
    /\ resp.status = 500
    /\ rows = <<>> /\ blobs # <<>>

\* C4: a Create answered 200 returns a new row whose image is exactly
\* <base URL>/storage/v1/object/public/images/public/<original file name>
\* and that is in the table; a Get on the identifier of a created row that
\* no UPDATE or DELETE has hit since returns 200 with that same row (unless
\* its SELECT itself fails).
C4_CreatedRowRetrievable ==
    [][ \A r \in Req :
          /\ (reqs[r].kind = "create" /\ Ends(r) /\ resp'.status = 200) =>
                LET row == resp'.body[1]
                IN /\ row.image = ExpectedImage(reqs[r].file[1].originalname)
                   /\ row.id \notin DOMAIN rows
                   /\ row.id \in DOMAIN rows' /\ rows'[row.id] = row
          /\ (reqs[r].kind = "get" /\ Ends(r) /\ reqs[r].id \in DOMAIN created
                /\ ~resp'.dbError) =>
                resp'.status = 200 /\ resp'.body = <<created[reqs[r].id]>>
      ]_vars

C4_Witness ==
    /\ resp.kind = "get" /\ resp.status = 200
    /\ resp.id \in DOMAIN created
    /\ resp.body = <<created[resp.id]>>
    /\ resp.body[1].image = ExpectedImage("aws.png")

\* C5: an Update answered 200 leaves the row's image as it was right before
\* the UPDATE ran when the request carries no file, and sets it to the URL of
\* the file's original name when it carries one; the answer is the row as
\* written.  This is so under every interleaving of Updates on one row.
C5_UpdateImage ==
    [][ \A r \in Req :
          (reqs[r].kind = "update" /\ Ends(r) /\ resp'.status = 200) =>
             LET id == reqs[r].id
             IN /\ id \in DOMAIN rows /\ id \in DOMAIN rows'
                /\ rows'[id].image =
                     IF reqs[r].file = <<>> THEN rows[id].image
                     ELSE ExpectedImage(reqs[r].file[1].originalname)
                /\ resp'.body = <<rows'[id]>>
      ]_vars

\* An Update without a file has answered 200 on a row whose image another
\* Update had replaced.
C5_Witness ==
    /\ resp.kind = "update" /\ resp.status = 200 /\ ~resp.hadFile
    /\ resp.id \in DOMAIN rows
    /\ rows[resp.id].image = ExpectedImage("gcp.png")
    /\ resp.body = <<rows[resp.id]>>
    /\ ExpectedPath("aws.png") \in DOMAIN blobs

\* C6 as stated: Update, Get and Delete on an identifier that matches no row
\* always answer 404 and leave the table unchanged, also for an Update with a
\* file whose upload fails (read with the request's own statement not
\* failing).
C6_AlwaysNotFound ==
    [][ \A r \in Req :
          (reqs[r].kind \in {"update", "get", "delete"} /\ Ends(r)
             /\ reqs[r].id \notin DOMAIN rows /\ ~resp'.dbError) =>
             resp'.status = 404 /\ rows' = rows
      ]_vars

\* C6 amended: Update, Get and Delete on an identifier that matches no row
\* leave the table unchanged; they answer 404 when the statement runs without
\* error, and 500 when the upload of an Update fails (the UPDATE is then never
\* reached) or the statement fails.
C6_NotFoundUnlessFailure ==
    [][ \A r \in Req :
          (reqs[r].kind \in {"update", "get", "delete"} /\ Ends(r)
             /\ reqs[r].id \notin DOMAIN rows) =>
             /\ rows' = rows
             /\ resp'.status =
                  IF resp'.uploadError # NULL \/ resp'.dbError THEN 500 ELSE 404
             /\ resp'.uploadError # NULL => ~resp'.dbIssued
      ]_vars

C6_Witness ==
    /\ resp.kind = "update" /\ resp.hadFile
    /\ resp.uploadError # NULL /\ resp.status = 500
    /\ resp.id \notin DOMAIN rows /\ resp.id \notin deleted
    /\ rows # <<>>

\* C7: a Delete answered 200 removes exactly the row of its identifier and
\* returns it, every other row staying as it was; from then on the identifier
\* has no row again, whatever runs in between, and a Get on it answers 404
\* (unless its SELECT itself fails).
C7_DeletePermanent ==
    [][ /\ deleted' \cap DOMAIN rows' = {}
        /\ \A r \in Req :
             /\ (reqs[r].kind = "delete" /\ Ends(r) /\ resp'.status = 200) =>
                   LET id == reqs[r].id
                   IN /\ id \in DOMAIN rows
                      /\ resp'.body = <<rows[id]>>
                      /\ DOMAIN rows' = DOMAIN rows \ {id}
                      /\ \A j \in DOMAIN rows' : rows'[j] = rows[j]
             /\ (reqs[r].kind = "get" /\ Ends(r) /\ reqs[r].id \in deleted
                   /\ ~resp'.dbError) =>
                   resp'.status = 404
      ]_vars

C7_Witness ==
    /\ resp.kind = "get" /\ resp.status = 404
    /\ resp.id \in deleted

\* C8 as stated: every upload goes to public/<original file name>, and an
\* upload to a path that already holds a blob succeeds without error: the
\* bucket then holds the later content at that path and the request goes on
\* to its statement (read with the store not failing for a reason of its own).
C8_SilentOverwrite ==
    [][ \A r \in Req :
          (reqs[r].pc = "uploading" /\ reqs'[r] # reqs[r]
             /\ ~(reqs'[r].pc = "idle" /\ resp'.uploadError = "StoreError")) =>
             LET file == reqs[r].file[1]
                 path == ExpectedPath(file.originalname)
             IN /\ reqs'[r].pc = "uploaded"
                /\ path \in DOMAIN blobs' /\ blobs'[path] = file.buffer
      ]_vars

\* C8 amended: every upload goes to public/<original file name>; the upload
\* is made without the upsert option, so an upload to a path that already
\* holds a blob is refused: that request answers 500 without running its
\* statement and the bucket keeps the earlier content at that path.  An
\* upload to a free path stores the file's content there or fails leaving the
\* bucket as it was.
C8_DuplicateRefused ==
    [][ \A r \in Req :
          (reqs[r].pc = "uploading" /\ reqs'[r] # reqs[r]) =>
             LET file == reqs[r].file[1]
                 path == ExpectedPath(file.originalname)
             IN IF path \in DOMAIN blobs
                  THEN /\ reqs'[r].pc = "idle"
                       /\ resp'.status = 500 /\ ~resp'.dbIssued
                       /\ resp'.uploadError \in {"Duplicate", "StoreError"}
                       /\ blobs' = blobs
                  ELSE \/ /\ reqs'[r].pc = "uploaded"
                          /\ DOMAIN blobs' = DOMAIN blobs \cup {path}
                          /\ blobs'[path] = file.buffer
                          /\ \A p \in DOMAIN blobs : blobs'[p] = blobs[p]
                       \/ /\ reqs'[r].pc = "idle"
                          /\ resp'.status = 500 /\ ~resp'.dbIssued
                          /\ resp'.uploadError = "StoreError"
                          /\ blobs' = blobs
      ]_vars

C8_Witness ==
    /\ resp.uploadError = "Duplicate" /\ resp.status = 500
    /\ resp.kind = "create"
    /\ ExpectedPath("aws.png") \in DOMAIN blobs
    /\ blobs[ExpectedPath("aws.png")] = 1
    /\ Cardinality(DOMAIN rows) = 1

\* C9: every row of the table has a non-null image, after any interleaving of
\* Create, Update and Delete requests, failed or not, with or without a file.
C9_ImageNeverNull ==
    \A i \in DOMAIN rows : rows[i].image # NULL

C9_Witness ==
    /\ resp.kind = "update" /\ resp.status = 200 /\ ~resp.hadFile
    /\ resp.id \in DOMAIN rows
    /\ rows[resp.id].name = "Renamed"
    /\ rows[resp.id].image # NULL

\* C10: the image of every row is the public URL of an object path at which
\* the bucket holds a blob; blobs that no row names can exist.
C10_RowImageHasBlob ==
    \A i \in DOMAIN rows :
       \E p \in DOMAIN blobs :
          rows[i].image = supabaseUrl \o "/storage/v1/object/public/images/" \o p

\* A row and, beside it, a blob that no row names.
C10_Witness ==
    /\ rows # <<>>
    /\ \E p \in DOMAIN blobs :
          \A i \in DOMAIN rows :
             rows[i].image # supabaseUrl \o "/storage/v1/object/public/images/" \o p
====
